---- MODULE Spec2Model ----
(***************************************************************************)
(* Model of dumbcli (v1.3.0): the record store (dumbcli.json), the id      *)
(* counter (config.json), the identifier resolver, the add / ls / find /   *)
(* edit / delete / run / export / import handlers, the power syntax, the   *)
(* placeholder substitution of run, and two processes run side by side.    *)
(*                                                                         *)
(* Text is a sequence of one-character strings.  A JavaScript value that   *)
(* may be text, false or undefined is a record [t, v].                     *)
(***************************************************************************)
EXTENDS Integers, Sequences, FiniteSets, TLC

VARIABLES
  commandsFile,   \* content of ~/.dumbcli/dumbcli.json
  configFile,     \* content of ~/.dumbcli/config.json
  lastOp,         \* the handler that ran last: its inputs of interest and what it reported
  issued,         \* history: every id that a saved records file has ever held
  procs           \* two dumb processes run side by side: where each one is in its
                  \* handler and what it holds in memory

vars == <<commandsFile, configFile, lastOp, issued, procs>>

(***************************************************************************)
(* Bounds                                                                  *)
(***************************************************************************)
MaxNextId == 2    \* handlers that create records are not started once the store holds this many
MaxBatch == 2     \* longest import file, in entries
MaxArgs == 3      \* longest runtime argument list given to run

(***************************************************************************)
(* Text                                                                    *)
(***************************************************************************)
UpperCase == <<"A","B","C","D","E","F","G","H","I","J","K","L","M",
               "N","O","P","Q","R","S","T","U","V","W","X","Y","Z">>
LowerCase == <<"a","b","c","d","e","f","g","h","i","j","k","l","m",
               "n","o","p","q","r","s","t","u","v","w","x","y","z">>
Digits == <<"0","1","2","3","4","5","6","7","8","9">>

DigitValue == [c \in {Digits[i] : i \in 1..10} |-> (CHOOSE i \in 1..10 : Digits[i] = c) - 1]
LowerOf == [c \in {UpperCase[i] : i \in 1..26} |-> LowerCase[CHOOSE i \in 1..26 : UpperCase[i] = c]]

IsSpace(c) == c \in {" ", "\t", "\n"}
IsDigit(c) == c \in DOMAIN DigitValue
DigitVal(c) == DigitValue[c]
LowerChar(c) == IF c \in DOMAIN LowerOf THEN LowerOf[c] ELSE c

\* String.prototype.toLowerCase
toLowerCase(s) == [i \in 1..Len(s) |-> LowerChar(s[i])]

RECURSIVE TrimStart(_)
TrimStart(s) == IF s # <<>> /\ IsSpace(Head(s)) THEN TrimStart(Tail(s)) ELSE s

RECURSIVE TrimEnd(_)
TrimEnd(s) ==
  IF s # <<>> /\ IsSpace(s[Len(s)]) THEN TrimEnd(SubSeq(s, 1, Len(s) - 1)) ELSE s

\* String.prototype.trim
trim(s) == TrimEnd(TrimStart(s))

\* String.prototype.includes
includes(s, sub) ==
  \E i \in 1..(Len(s) - Len(sub) + 1) : SubSeq(s, i, i + Len(sub) - 1) = sub

\* /\s|:/.test(s)
HasSpaceOrColon(s) == \E i \in 1..Len(s) : IsSpace(s[i]) \/ s[i] = ":"

\* String(n) for a positive integer
RECURSIVE StringOf(_)
StringOf(n) ==
  IF n < 10 THEN <<Digits[n + 1]>>
  ELSE StringOf(n \div 10) \o <<Digits[(n % 10) + 1]>>

RECURSIVE DigitPrefix(_, _, _)
DigitPrefix(s, acc, seen) ==
  IF s # <<>> /\ IsDigit(Head(s))
  THEN DigitPrefix(Tail(s), 10 * acc + DigitVal(Head(s)), TRUE)
  ELSE [isNaN |-> ~seen, n |-> acc]

\* parseInt(s, 10): leading white space is skipped, one sign is accepted, the
\* longest prefix of digits is the value, and anything after it is ignored.
parseInt(s) ==
  LET t == TrimStart(s)
      neg == t # <<>> /\ Head(t) = "-"
      u == IF t # <<>> /\ Head(t) \in {"-", "+"} THEN Tail(t) ELSE t
      p == DigitPrefix(u, 0, FALSE)
  IN  [isNaN |-> p.isNaN, n |-> IF neg THEN 0 - p.n ELSE p.n]

(***************************************************************************)
(* JavaScript values of the optional fields                                *)
(***************************************************************************)
False == [t |-> "false", v |-> <<>>]
Undefined == [t |-> "undefined", v |-> <<>>]
Str(s) == [t |-> "string", v |-> s]

Truthy(x) == x.t = "string" /\ x.v # <<>>
\* x || false
OrFalse(x) == IF Truthy(x) THEN x ELSE False
\* x?.trim() || false
TrimOrFalse(x) == IF x.t = "string" /\ trim(x.v) # <<>> THEN Str(trim(x.v)) ELSE False

(***************************************************************************)
(* Record Store                                                            *)
(***************************************************************************)
NoFile == [kind |-> "absent", items |-> <<>>, nextId |-> 0]
EmptyFile == [kind |-> "empty", items |-> <<>>, nextId |-> 0]
ArrayFile(items) == [kind |-> "array", items |-> items, nextId |-> 0]
\* a records file of white space only, one that is not JSON, and one that is
\* JSON but not an array (an object, say)
BlankFile == [kind |-> "blank", items |-> <<>>, nextId |-> 0]
GarbageFile == [kind |-> "garbage", items |-> <<>>, nextId |-> 0]
ObjectFile == [kind |-> "object", items |-> <<>>, nextId |-> 0]
ConfigJson(n) == [kind |-> "config", items |-> <<>>, nextId |-> n]

\* fs.writeFileSync(path, data): "ok" replaces the content; "eopen" fails before
\* the file is touched; "etrunc" fails after the file was opened for writing,
\* which leaves it empty.  Both failures are caught and logged by the callers.
WriteModes == {"ok", "eopen", "etrunc"}
writeFileSync(old, data, mode) ==
  CASE mode = "ok" -> data
    [] mode = "eopen" -> old
    [] OTHER -> EmptyFile

readConfig(cfg) == IF cfg.kind = "config" THEN cfg.nextId ELSE 1

writeConfig(cfg, n, mode) == writeFileSync(cfg, ConfigJson(n), mode)

INVALID_COMMAND == <<"I","N","V","A","L","I","D">>

readCommands(file) ==
  IF file.kind # "array" THEN <<>>
  ELSE [i \in 1..Len(file.items) |->
          LET cmd == file.items[i] IN
          [id |-> IF cmd.id # 0 THEN cmd.id ELSE i,
           alias |-> OrFalse(cmd.alias),
           command |-> IF cmd.command # <<>> THEN cmd.command ELSE INVALID_COMMAND,
           comment |-> OrFalse(cmd.comment)]]

\* readCommandsReport printing the diagnostic for text that is not JSON only
readCommandsReportParseOnly(file) ==
  IF file.kind = "garbage" THEN "CouldNotParse" ELSE "none"

\* what readCommands prints: nothing, the two lines of 72-73 ("does not contain
\* a valid JSON array"), or the lines of 87 and 91 ("Could not parse")
readCommandsReport(file) ==
  CASE file.kind = "object" -> "NotAnArray"
    [] file.kind = "garbage" -> "CouldNotParse"
    [] OTHER -> "none"

\* ensureConfigDirExists: dirMode "exists" (nothing to do), "created" (mkdirSync
\* made it) or "eacces" (mkdirSync threw: line 28 ends the process with status 1)
DirModes == {"exists", "created", "eacces"}
ensureConfigDirExists(dirMode) == dirMode # "eacces"

\* Array.prototype.sort((a, b) => a.id - b.id): a stable sort
RECURSIVE InsertById(_, _)
InsertById(sorted, r) ==
  IF sorted = <<>> THEN <<r>>
  ELSE IF sorted[Len(sorted)].id <= r.id THEN Append(sorted, r)
  ELSE Append(InsertById(SubSeq(sorted, 1, Len(sorted) - 1), r), sorted[Len(sorted)])

RECURSIVE SortById(_)
SortById(commands) ==
  IF commands = <<>> THEN <<>>
  ELSE InsertById(SortById(SubSeq(commands, 1, Len(commands) - 1)), commands[Len(commands)])

writeCommands(file, commands, mode) ==
  writeFileSync(file, ArrayFile(SortById(commands)), mode)

(***************************************************************************)
(* Identifier Resolver                                                     *)
(***************************************************************************)
\* lines 114 and 118: the two tests made on one record
Matches(searchLower, idSearch, cmd) ==
  \/ (~idSearch.isNaN /\ cmd.id = idSearch.n)
  \/ (Truthy(cmd.alias) /\ toLowerCase(cmd.alias.v) = searchLower)

RECURSIVE ScanFrom(_, _, _, _)
ScanFrom(searchLower, idSearch, commands, i) ==
  IF i > Len(commands) THEN 0
  ELSE IF Matches(searchLower, idSearch, commands[i]) THEN i
  ELSE ScanFrom(searchLower, idSearch, commands, i + 1)

\* the first record that passes the id test, whatever its alias
RECURSIVE ScanIds(_, _, _)
ScanIds(idSearch, commands, i) ==
  IF i > Len(commands) THEN 0
  ELSE IF ~idSearch.isNaN /\ commands[i].id = idSearch.n THEN i
  ELSE ScanIds(idSearch, commands, i + 1)

\* findCommandByIdOrAlias looking for an id hit in the whole array first, and
\* for an alias hit only when there is none
findCommandIdFirst(specifier, commands) ==
  LET byId == ScanIds(parseInt(specifier), commands, 1)
  IN  IF byId # 0 THEN byId
      ELSE ScanFrom(toLowerCase(specifier), parseInt(specifier), commands, 1)

\* findCommandByIdOrAlias falling back on the last record when none matches
findCommandOrLast(specifier, commands) ==
  LET found == ScanFrom(toLowerCase(specifier), parseInt(specifier), commands, 1)
  IN  IF found = 0 THEN Len(commands) ELSE found

\* index of the record found, 0 when none is
findCommandByIdOrAlias(specifier, commands) ==
  ScanFrom(toLowerCase(specifier), parseInt(specifier), commands, 1)

\* isAliasUnique comparing the aliases as written, without toLowerCase
isAliasUniqueCaseSensitive(alias, commands, excludeId) ==
  IF ~Truthy(alias) THEN TRUE
  ELSE ~\E i \in 1..Len(commands) :
          /\ Truthy(commands[i].alias)
          /\ commands[i].alias.v = alias.v
          /\ commands[i].id # excludeId

\* excludeId 0 stands for the default null
isAliasUnique(alias, commands, excludeId) ==
  IF ~Truthy(alias) THEN TRUE
  ELSE ~\E i \in 1..Len(commands) :
          /\ Truthy(commands[i].alias)
          /\ toLowerCase(commands[i].alias.v) = toLowerCase(alias.v)
          /\ commands[i].id # excludeId

\* getNextId numbering from 1 whatever the counter file holds
getNextIdFromOne(cfg, mode) == [id |-> 1, cfg |-> writeConfig(cfg, 2, mode)]

\* getNextId with the increment lost: the counter is written back as it was read
getNextIdNoIncrement(cfg, mode) ==
  [id |-> readConfig(cfg), cfg |-> writeConfig(cfg, readConfig(cfg), mode)]

\* the id handed out and the counter file left behind
getNextId(cfg, mode) ==
  LET nextId == readConfig(cfg)
  IN  [id |-> nextId, cfg |-> writeConfig(cfg, nextId + 1, mode)]

(***************************************************************************)
(* Interactive prompting (the prompts library)                             *)
(***************************************************************************)
\* A text prompt returns what was typed, or its initial value when nothing was.
Prompt(initial, typed) == IF typed # <<>> THEN typed ELSE initial

\* prompts([q1, q2, q3]) aborted at question abortAt (0: not aborted) returns
\* the answers given before it; the aborted question and those after it are
\* left undefined.
Answer(n, abortAt, value) == IF abortAt = 0 \/ n < abortAt THEN Str(value) ELSE Undefined

\* what is typed at question n: a question that is never answered has nothing
\* typed into it
Typed(n, abortAt, texts) == IF abortAt = 0 \/ n < abortAt THEN texts ELSE {<<>>}

\* a confirm prompt: "yes", "no" or "abort" (value undefined)
Confirms == {"yes", "no", "abort"}

\* confirm.value taken for "yes" whenever the answer is not "no"
ConfirmValueUnlessNo(confirm) == confirm # "no"

\* confirm.value as the handlers test it: true for "yes", false for "no",
\* undefined after an abort
ConfirmValue(confirm) == confirm = "yes"

Ids(file) == {file.items[i].id : i \in 1..Len(file.items)}

NoWarning == [kind |-> "none", args |-> <<>>]
Warning(kind, args) == [kind |-> kind, args |-> args]

Op(op, report, abortAt, id) ==
  [op |-> op, report |-> report, abortAt |-> abortAt, id |-> id,
   asked |-> FALSE, exec |-> <<>>, final |-> <<>>, warn |-> NoWarning,
   args |-> <<>>, required |-> 0, provided |-> 0, created |-> 0, newIds |-> {},
   confirm |-> "none",
   \* status: the exit status of the command execSync ran; result: the value
   \* the handler resolves to, which no handler sets (return console.log(...))
   status |-> 0, result |-> Undefined,
   \* blank: every question of edit was answered with nothing typed; refused:
   \* a value the validate of the alias question turned down before the answer
   \* it accepted
   blank |-> FALSE, refused |-> Undefined,
   \* specifier: the <specifier> argument of dl, edit and run
   specifier |-> <<>>,
   \* entries, appendMode: the array in the file given to import, and its -a flag
   entries |-> <<>>, appendMode |-> FALSE,
   \* exported: the records written to the export file
   exported |-> <<>>,
   \* loaded: the records readCommands returned to ls or find; diagnostic: what
   \* readCommands printed; exit: the status process.exit was called with, 0
   \* when it was not called
   loaded |-> <<>>, diagnostic |-> "none", exit |-> 0,
   \* query, results: the <query> argument of find and the records it printed
   query |-> <<>>, results |-> <<>>,
   \* proc: the process that ran the handler, 0 when processes are not told apart
   proc |-> 0,
   \* initial: the initial values add was called with (command, alias, comment),
   \* empty for dumb add; prompted: how many questions add put to the user
   initial |-> <<>>, prompted |-> 0]

\* what a handler that was given a specifier printed and did
OpOn(specifier, op, report, abortAt, id) ==
  [Op(op, report, abortAt, id) EXCEPT !.specifier = specifier]

\* A process runs one handler.  pc: the line it is about to run; commands: the
\* array readCommands gave it; nextId: the counter it read; cmd: the record it
\* is about to add; found: the index of the record it is about to delete.
NoCmd == [id |-> 0, command |-> <<>>, alias |-> False, comment |-> False]
Idle == [pc |-> "idle", op |-> "none", commands |-> <<>>, nextId |-> 0,
         cmd |-> NoCmd, found |-> 0, report |-> ""]
Procs == {1, 2}
NoProcs == [p \in Procs |-> Idle]

\* the handler is over: the files it leaves and what it reported
Finish(file, cfg, op) ==
  /\ commandsFile' = file
  /\ configFile' = cfg
  /\ lastOp' = op
  /\ issued' = issued \cup Ids(file)
  /\ procs' = procs

(***************************************************************************)
(* Record Lifecycle Manager: add                                           *)
(***************************************************************************)
\* validate of the alias question of add
AddAliasValid(value, commands) ==
  \/ value = <<>>
  \/ (~HasSpaceOrColon(value) /\ isAliasUnique(Str(trim(value)), commands, 0))

\* up to n more records may be created from the counter value nextId
CanCreate(nextId, held, n) == nextId + n - 1 <= MaxNextId /\ held + n <= MaxNextId

\* line 149: what readCommands printed; lines 151-179: prompts puts the three
\* questions of add one after the other, each showing its initial value, until
\* one is aborted
Asked(op, initial) ==
  [op EXCEPT !.diagnostic = readCommandsReport(commandsFile),
             !.initial = IF initial = <<<<>>, <<>>, <<>>>> THEN <<>> ELSE initial,
             !.prompted = IF op.abortAt = 0 THEN 3 ELSE op.abortAt]

\* lines 181-204: what add does with the answers it was given
AddAnswered(commands, response, abortAt, cfgMode, cmdMode, initial) ==
  IF ~Truthy(response.command)
  THEN Finish(commandsFile, configFile, Asked(Op("add", "Cancelled", abortAt, 0), initial))
  ELSE LET next == getNextId(configFile, cfgMode)
           alias == TrimOrFalse(response.alias)
           comment == TrimOrFalse(response.comment)
           newCmd == [id |-> next.id, command |-> trim(response.command.v),
                      alias |-> alias, comment |-> comment]
       IN  IF Truthy(alias) /\ ~isAliasUnique(alias, commands, 0)
           THEN Finish(commandsFile, next.cfg,
                       Asked(Op("add", "AliasConflict", abortAt, 0), initial))
           ELSE Finish(writeCommands(commandsFile, Append(commands, newCmd), cmdMode),
                       next.cfg,
                       [Asked(Op("add", "Added", abortAt, next.id), initial) EXCEPT
                          !.created = IF cmdMode = "ok" THEN 1 ELSE 0,
                          !.newIds = {next.id}])

\* user: what the person at the terminal may type, where they may abort, and
\* how the writes of this run may end
handleAddCommand(initialCommand, initialAlias, initialComment, user) ==
  \E commands \in {readCommands(commandsFile)} :
    /\ CanCreate(readConfig(configFile), Len(commands), 1)
    /\ \E abortAt \in user.aborts :
         \E typedCommand \in Typed(1, abortAt, user.commands),
            typedAlias \in Typed(2, abortAt, user.aliases),
            typedComment \in Typed(3, abortAt, user.comments) :
           LET commandValue == Prompt(initialCommand, typedCommand)
               aliasValue == Prompt(initialAlias, typedAlias)
               commentValue == Prompt(initialComment, typedComment)
           IN  \* an answer is accepted only once its validate passes
               /\ (abortAt = 0 \/ abortAt > 1) => trim(commandValue) # <<>>
               /\ (abortAt = 0 \/ abortAt > 2) => AddAliasValid(aliasValue, commands)
               /\ \E cfgMode \in user.cfgModes, cmdMode \in user.cmdModes :
                    AddAnswered(commands,
                                [command |-> Answer(1, abortAt, commandValue),
                                 alias |-> Answer(2, abortAt, aliasValue),
                                 comment |-> Answer(3, abortAt, commentValue)],
                                abortAt, cfgMode, cmdMode,
                                <<initialCommand, initialAlias, initialComment>>)

(***************************************************************************)
(* Power syntax: dumb d:a:<command>:<alias>:<comment>                      *)
(***************************************************************************)
\* String.prototype.split(':')
RECURSIVE SplitColons(_, _)
SplitColons(s, part) ==
  IF s = <<>> THEN <<part>>
  ELSE IF Head(s) = ":" THEN <<part>> \o SplitColons(Tail(s), <<>>)
  ELSE SplitColons(Tail(s), Append(part, Head(s)))

\* Array.prototype.join(':')
RECURSIVE JoinColons(_)
JoinColons(parts) ==
  IF parts = <<>> THEN <<>>
  ELSE IF Len(parts) = 1 THEN parts[1]
  ELSE parts[1] \o <<":">> \o JoinColons(Tail(parts))

PowerPrefix == <<"d", ":", "a", ":">>

\* lines 671-677: rawInput.match(/^d:a:(.+)$/) and the three parts of the rest
PowerParse(rawInput) ==
  LET matched == /\ Len(rawInput) > Len(PowerPrefix)
                 /\ SubSeq(rawInput, 1, Len(PowerPrefix)) = PowerPrefix
      parts == SplitColons(SubSeq(rawInput, Len(PowerPrefix) + 1, Len(rawInput)), <<>>)
  IN  [matched |-> matched,
       command |-> IF matched THEN trim(parts[1]) ELSE <<>>,
       alias |-> IF matched /\ Len(parts) >= 2 THEN trim(parts[2]) ELSE <<>>,
       comment |-> IF matched THEN trim(JoinColons(SubSeq(parts, 3, Len(parts))))
                   ELSE <<>>]

\* the default command: a power add calls handleAddCommand with the parts as
\* initial values; anything else shows the welcome text
handleDefaultCommand(rawInput, user) ==
  \E power \in {PowerParse(rawInput)} :
    IF power.matched /\ power.command # <<>>
    THEN handleAddCommand(power.command, power.alias, power.comment, user)
    ELSE Finish(commandsFile, configFile, Op("welcome", "Help", 0, 0))

(***************************************************************************)
(* Record Lifecycle Manager: ls                                            *)
(***************************************************************************)
\* the directory can be missing only while neither file exists
DirModesOf(file, cfg) ==
  IF file.kind = "absent" /\ cfg.kind = "absent" THEN DirModes ELSE {"exists"}

\* dumb ls: readCommands, then the table of the records sorted by id
handleListCommands ==
  \E dirMode \in DirModesOf(commandsFile, configFile) :
    IF ~ensureConfigDirExists(dirMode)
    THEN Finish(commandsFile, configFile, [Op("list", "Fatal", 0, 0) EXCEPT !.exit = 1])
    ELSE LET commands == readCommands(commandsFile)
         IN  Finish(commandsFile, configFile,
                    [Op("list", IF commands = <<>> THEN "NoCommands" ELSE "Listed", 0, 0)
                       EXCEPT !.loaded = commands,
                              !.diagnostic = readCommandsReport(commandsFile)])

(***************************************************************************)
(* Record Lifecycle Manager: find                                          *)
(***************************************************************************)
\* lines 376-380: the test of the filter on one record
FindMatches(queryLower, cmd) ==
  \/ includes(toLowerCase(cmd.command), queryLower)
  \/ (Truthy(cmd.alias) /\ includes(toLowerCase(cmd.alias.v), queryLower))
  \/ (Truthy(cmd.comment) /\ includes(toLowerCase(cmd.comment.v), queryLower))

\* Array.prototype.filter with that test
RECURSIVE FilterFound(_, _)
FilterFound(queryLower, commands) ==
  IF commands = <<>> THEN <<>>
  ELSE IF FindMatches(queryLower, Head(commands))
  THEN <<Head(commands)>> \o FilterFound(queryLower, Tail(commands))
  ELSE FilterFound(queryLower, Tail(commands))

\* dumb find <query>
handleFindCommand(query) ==
  \* line 372: if (!query)
  IF query = <<>>
  THEN Finish(commandsFile, configFile, Op("find", "NoQuery", 0, 0))
  ELSE
  \E dirMode \in DirModesOf(commandsFile, configFile) :
    IF ~ensureConfigDirExists(dirMode)
    THEN Finish(commandsFile, configFile,
                [Op("find", "Fatal", 0, 0) EXCEPT !.exit = 1, !.query = query])
    ELSE LET commands == readCommands(commandsFile)
             results == SortById(FilterFound(toLowerCase(query), commands))
         IN  Finish(commandsFile, configFile,
                    [Op("find", IF results = <<>> THEN "NoMatch" ELSE "Found", 0, 0)
                       EXCEPT !.loaded = commands,
                              !.diagnostic = readCommandsReport(commandsFile),
                              !.query = query, !.results = results])

(***************************************************************************)
(* Record Lifecycle Manager: delete                                        *)
(***************************************************************************)
\* RemoveAt taking the records before index i away as well
RemoveThrough(s, i) == SubSeq(s, i + 1, Len(s))

\* commands.splice(i, 1)
RemoveAt(s, i) == SubSeq(s, 1, i - 1) \o SubSeq(s, i + 1, Len(s))

handleDeleteCommand(specifier, user) ==
  \* line 237: if (!specifier)
  IF specifier = <<>>
  THEN Finish(commandsFile, configFile, OpOn(specifier, "delete", "NoSpecifier", 0, 0))
  ELSE
  \E commands \in {readCommands(commandsFile)} :
    \E found \in {findCommandByIdOrAlias(specifier, commands)} :
      IF found = 0
      THEN Finish(commandsFile, configFile, OpOn(specifier, "delete", "NotFound", 0, 0))
      ELSE \E confirm \in Confirms :
             IF ConfirmValue(confirm)
             THEN \E cmdMode \in user.cmdModes :
                    Finish(writeCommands(commandsFile, RemoveAt(commands, found), cmdMode),
                           configFile,
                           [OpOn(specifier, "delete", "Deleted", 0, commands[found].id) EXCEPT
                              !.asked = TRUE, !.confirm = confirm])
             ELSE Finish(commandsFile, configFile,
                         [OpOn(specifier, "delete", "Cancelled", 0, commands[found].id) EXCEPT
                            !.asked = TRUE, !.confirm = confirm])

(***************************************************************************)
(* Record Lifecycle Manager: edit                                          *)
(***************************************************************************)
\* cmd.alias || '' and cmd.comment || ''
OrEmpty(x) == IF Truthy(x) THEN x.v ELSE <<>>

\* EditAliasValid looking at the spelling of the alias only
EditAliasValidSpellingOnly(value, cmdToEdit, commands) ==
  \/ value = <<" ">>
  \/ value = <<>>
  \/ ~HasSpaceOrColon(trim(value))

\* validate of the alias question of edit
EditAliasValid(value, cmdToEdit, commands) ==
  \/ value = <<" ">>
  \/ value = <<>>
  \/ LET newAlias == trim(value)
     IN  /\ ~HasSpaceOrColon(newAlias)
         /\ (toLowerCase(newAlias) # toLowerCase(OrEmpty(cmdToEdit.alias))
               => isAliasUnique(Str(newAlias), commands, cmdToEdit.id))

\* EditedRecord setting whatever alias and comment came back from the prompts,
\* without comparing them with the values the record has
EditedRecordUncompared(cmdToEdit, newCommand, newAlias, newComment) ==
  LET updatedCommand == trim(newCommand)
      setCommand == updatedCommand # <<>> /\ updatedCommand # cmdToEdit.command
      clearAlias == newAlias = <<" ">> /\ cmdToEdit.alias # False
      setAlias == newAlias # <<" ">> /\ trim(newAlias) # <<>>
      clearComment == newComment = <<" ">> /\ cmdToEdit.comment # False
      setComment == newComment # <<" ">> /\ trim(newComment) # <<>>
  IN  [changed |-> setCommand \/ clearAlias \/ setAlias \/ clearComment \/ setComment,
       cmd |-> [id |-> cmdToEdit.id,
                command |-> IF setCommand THEN updatedCommand ELSE cmdToEdit.command,
                alias |-> IF clearAlias THEN False
                          ELSE IF setAlias THEN Str(trim(newAlias)) ELSE cmdToEdit.alias,
                comment |-> IF clearComment THEN False
                            ELSE IF setComment THEN Str(trim(newComment))
                            ELSE cmdToEdit.comment]]

\* lines 320-354: the record as edited in memory, and whether anything changed
EditedRecord(cmdToEdit, newCommand, newAlias, newComment) ==
  LET updatedCommand == trim(newCommand)
      setCommand == updatedCommand # <<>> /\ updatedCommand # cmdToEdit.command
      clearAlias == newAlias = <<" ">> /\ cmdToEdit.alias # False
      setAlias == /\ newAlias # <<" ">>
                  /\ trim(newAlias) # <<>>
                  /\ trim(newAlias) # OrEmpty(cmdToEdit.alias)
      clearComment == newComment = <<" ">> /\ cmdToEdit.comment # False
      setComment == /\ newComment # <<" ">>
                    /\ trim(newComment) # <<>>
                    /\ trim(newComment) # OrEmpty(cmdToEdit.comment)
  IN  [changed |-> setCommand \/ clearAlias \/ setAlias \/ clearComment \/ setComment,
       cmd |-> [id |-> cmdToEdit.id,
                command |-> IF setCommand THEN updatedCommand ELSE cmdToEdit.command,
                alias |-> IF clearAlias THEN False
                          ELSE IF setAlias THEN Str(trim(newAlias)) ELSE cmdToEdit.alias,
                comment |-> IF clearComment THEN False
                            ELSE IF setComment THEN Str(trim(newComment))
                            ELSE cmdToEdit.comment]]

\* said: what the user typed at the prompts of this edit
Said(op, said) ==
  [op EXCEPT !.blank = said.blank, !.refused = said.refused,
             !.specifier = said.specifier]

\* lines 316-366: what edit does with the answers it was given
EditAnswered(commands, found, response, abortAt, modes, said) ==
  LET cmdToEdit == commands[found]
  IN  IF response.newCommand = Undefined
      THEN Finish(commandsFile, configFile,
                  Said(Op("edit", "Cancelled", abortAt, cmdToEdit.id), said))
      \* undefined.trim() at line 338 or line 351: the handler's promise rejects
      ELSE IF response.newAlias = Undefined \/ response.newComment = Undefined
      THEN Finish(commandsFile, configFile,
                  Said(Op("edit", "TypeError", abortAt, cmdToEdit.id), said))
      ELSE \E edited \in {EditedRecord(cmdToEdit, response.newCommand.v,
                                      response.newAlias.v, response.newComment.v)} :
             IF ~edited.changed
             THEN Finish(commandsFile, configFile,
                         Said(Op("edit", "NoChanges", abortAt, cmdToEdit.id), said))
             ELSE IF Truthy(edited.cmd.alias)
                     /\ ~isAliasUnique(edited.cmd.alias,
                                       [commands EXCEPT ![found] = edited.cmd], cmdToEdit.id)
             THEN Finish(commandsFile, configFile,
                         Said(Op("edit", "AliasConflict", abortAt, cmdToEdit.id), said))
             ELSE \E cmdMode \in modes :
                    Finish(writeCommands(commandsFile,
                                         [commands EXCEPT ![found] = edited.cmd], cmdMode),
                           configFile,
                           Said(Op("edit", "Updated", abortAt, cmdToEdit.id), said))

handleEditCommand(specifier, user) ==
  \* line 266: if (!specifier)
  IF specifier = <<>>
  THEN Finish(commandsFile, configFile, OpOn(specifier, "edit", "NoSpecifier", 0, 0))
  ELSE
  \E commands \in {readCommands(commandsFile)} :
    \E found \in {findCommandByIdOrAlias(specifier, commands)} :
      IF found = 0
      THEN Finish(commandsFile, configFile, OpOn(specifier, "edit", "NotFound", 0, 0))
      ELSE \E abortAt \in user.aborts :
             \E typedCommand \in Typed(1, abortAt, user.commands),
                typedAlias \in Typed(2, abortAt, user.aliases),
                typedComment \in Typed(3, abortAt, user.comments),
                refused \in {Undefined} \cup
                            {Str(v) : v \in {t \in user.attempts :
                                               /\ abortAt \in {0, 2, 3}
                                               /\ ~EditAliasValid(t, commands[found],
                                                                   commands)}} :
               LET cmdToEdit == commands[found]
                   aliasValue == Prompt(OrEmpty(cmdToEdit.alias), typedAlias)
               IN  /\ (abortAt = 0 \/ abortAt > 2)
                        => EditAliasValid(aliasValue, cmdToEdit, commands)
                   /\ EditAnswered(commands, found,
                        [newCommand |-> Answer(1, abortAt,
                                               Prompt(cmdToEdit.command, typedCommand)),
                         newAlias |-> Answer(2, abortAt, aliasValue),
                         newComment |-> Answer(3, abortAt,
                                               Prompt(OrEmpty(cmdToEdit.comment),
                                                      typedComment))],
                        abortAt, user.cmdModes,
                        [blank |-> /\ abortAt = 0
                                   /\ typedCommand = <<>> /\ typedAlias = <<>>
                                   /\ typedComment = <<>>,
                         refused |-> refused, specifier |-> specifier])

(***************************************************************************)
(* Invocation Engine: run                                                  *)
(***************************************************************************)
placeholder == <<"{", "}">>

\* s.indexOf(placeholder) + 1: where the first marker starts, 0 when there is none
RECURSIVE IndexFrom(_, _)
IndexFrom(s, i) ==
  IF i + 1 > Len(s) THEN 0
  ELSE IF s[i] = "{" /\ s[i + 1] = "}" THEN i
  ELSE IndexFrom(s, i + 1)

IndexOfPlaceholder(s) == IndexFrom(s, 1)

\* (s.match(/{}/g) || []).length
RECURSIVE CountFrom(_, _)
CountFrom(s, i) ==
  LET at == IndexFrom(s, i)
  IN  IF at = 0 THEN 0 ELSE 1 + CountFrom(s, at + 2)

placeholderCount(s) == CountFrom(s, 1)

\* the grave accent character (U+0060), which a TLA+ string cannot hold
GraveAccent == "grave"

\* The replacement text of String.prototype.replace is itself a pattern:
\* $$ is a dollar sign, $& the matched text, $ followed by a grave accent the
\* text before the match and $' the text after it.
RECURSIVE GetSubstitution(_, _, _, _)
GetSubstitution(replacement, matched, before, after) ==
  IF replacement = <<>> THEN <<>>
  ELSE IF Head(replacement) = "$" /\ Len(replacement) >= 2
          /\ replacement[2] \in {"$", "&", GraveAccent, "'"}
  THEN (CASE replacement[2] = "$" -> <<"$">>
          [] replacement[2] = "&" -> matched
          [] replacement[2] = GraveAccent -> before
          [] OTHER -> after)
       \o GetSubstitution(SubSeq(replacement, 3, Len(replacement)), matched, before, after)
  ELSE <<Head(replacement)>> \o GetSubstitution(Tail(replacement), matched, before, after)

\* commandString.replace(placeholder, arg): the first marker only
replace(s, arg) ==
  LET at == IndexOfPlaceholder(s)
      before == SubSeq(s, 1, at - 1)
      after == SubSeq(s, at + 2, Len(s))
  IN  IF at = 0 THEN s
      ELSE before \o GetSubstitution(arg, placeholder, before, after) \o after

\* lines 419-423: the loop runs while a marker is left and an argument is left
RECURSIVE Substitute(_, _, _)
Substitute(commandString, runtimeArgs, currentArgIndex) ==
  IF IndexOfPlaceholder(commandString) # 0 /\ currentArgIndex <= Len(runtimeArgs)
  THEN Substitute(replace(commandString, runtimeArgs[currentArgIndex]),
                  runtimeArgs, currentArgIndex + 1)
  ELSE commandString

homedir == <<"/", "h">>

\* commandString.replace(/^~(?=$|\/|\\)/, os.homedir())
ExpandTilde(s) ==
  IF s # <<>> /\ Head(s) = "~" /\ (Len(s) = 1 \/ s[2] \in {"/", "\\"})
  THEN homedir \o Tail(s)
  ELSE s

\* Prepare asking only for some argument, not for one per marker
PrepareAnyArgument(command, runtimeArgs) ==
  LET count == placeholderCount(command)
  IN  [insufficient |-> count > 0 /\ Len(runtimeArgs) = 0,
       required |-> count,
       warn |-> NoWarning,
       finalCommand |-> ExpandTilde(IF count > 0 THEN Substitute(command, runtimeArgs, 1)
                                    ELSE command)]

\* lines 404-437: the command as prepared for execSync, with the warning printed
Prepare(command, runtimeArgs) ==
  LET count == placeholderCount(command)
      commandString == IF count > 0 THEN Substitute(command, runtimeArgs, 1) ELSE command
  IN  [insufficient |-> count > 0 /\ Len(runtimeArgs) < count,
       required |-> count,
       \* line 427 prints the two counts, line 431 prints the arguments
       warn |-> IF count > 0
                THEN (IF Len(runtimeArgs) > count THEN Warning("counts", <<>>)
                      ELSE NoWarning)
                ELSE (IF Len(runtimeArgs) > 0 THEN Warning("ignored", runtimeArgs)
                      ELSE NoWarning),
       finalCommand |-> ExpandTilde(commandString)]

\* user.statuses: the exit statuses the command run by execSync may end with
handleRunCommand(specifier, runtimeArgs, user) ==
  \* line 394: if (!specifier)
  IF specifier = <<>>
  THEN Finish(commandsFile, configFile, OpOn(specifier, "run", "NoSpecifier", 0, 0))
  ELSE
  \E commands \in {readCommands(commandsFile)} :
    \E found \in {findCommandByIdOrAlias(specifier, commands)} :
      IF found = 0
      THEN Finish(commandsFile, configFile, OpOn(specifier, "run", "NotFound", 0, 0))
      ELSE \E p \in {Prepare(commands[found].command, runtimeArgs)} :
             IF p.insufficient
             THEN Finish(commandsFile, configFile,
                         [OpOn(specifier, "run", "InsufficientArguments", 0,
                               commands[found].id) EXCEPT
                            !.args = runtimeArgs,
                            !.required = p.required, !.provided = Len(runtimeArgs)])
             ELSE \E confirm \in Confirms :
                    IF ~ConfirmValue(confirm)
                    THEN Finish(commandsFile, configFile,
                                [OpOn(specifier, "run", "Cancelled", 0, commands[found].id) EXCEPT
                                   !.args = runtimeArgs,
                                   !.asked = TRUE, !.final = p.finalCommand,
                                   !.warn = p.warn, !.confirm = confirm])
                    ELSE \E exitStatus \in user.statuses :
                           Finish(commandsFile, configFile,
                                  [OpOn(specifier, "run",
                                        IF exitStatus = 0 THEN "Finished" ELSE "Failed",
                                        0, commands[found].id) EXCEPT
                                     !.args = runtimeArgs,
                                     !.asked = TRUE, !.final = p.finalCommand,
                                     !.warn = p.warn, !.exec = <<p.finalCommand>>,
                                     !.confirm = confirm, !.status = exitStatus])

(***************************************************************************)
(* Import/Export Translator                                                *)
(***************************************************************************)
\* The export file is written outside the store; dirOk: the target is a directory.
handleExportCommand(dirOk) ==
  LET commands == readCommands(commandsFile)
  IN  Finish(commandsFile, configFile,
             [Op("export", IF commands = <<>> THEN "NothingToExport"
                           ELSE IF ~dirOk THEN "InvalidPath" ELSE "Exported", 0, 0)
                EXCEPT !.exported = IF commands # <<>> /\ dirOk THEN commands ELSE <<>>])

\* JSON.parse of the file that line 484 wrote with JSON.stringify(commands): the
\* entries import finds in it (it does not look at their id)
ParseExported(exported) ==
  [i \in 1..Len(exported) |->
     [command |-> Str(exported[i].command), alias |-> exported[i].alias,
      comment |-> exported[i].comment]]

\* lines 509: entries whose command is text
RECURSIVE FilterValid(_)
FilterValid(entries) ==
  IF entries = <<>> THEN <<>>
  ELSE IF Head(entries).command.t = "string"
  THEN <<Head(entries)>> \o FilterValid(Tail(entries))
  ELSE FilterValid(Tail(entries))

\* lines 522-525
RECURSIVE MaxId(_)
MaxId(commands) ==
  IF commands = <<>> THEN 0
  ELSE LET m == MaxId(Tail(commands))
       IN  IF Head(commands).id >= m THEN Head(commands).id ELSE m

\* lines 533 and 547: the aliases in use, in lower case
AliasesLower(commands) ==
  {toLowerCase(commands[i].alias.v) : i \in {j \in 1..Len(commands) : Truthy(commands[j].alias)}}

\* lines 535-556: one pass over the import file in append mode
RECURSIVE AppendEntries(_, _, _, _)
AppendEntries(entries, commandsToWrite, nextId, warnings) ==
  IF entries = <<>>
  THEN [commands |-> commandsToWrite, nextId |-> nextId, warnings |-> warnings]
  ELSE LET impCmd == Head(entries)
           proposedAlias == trim(impCmd.alias.v)
           keep == /\ Truthy(impCmd.alias)
                   /\ ~HasSpaceOrColon(proposedAlias)
                   /\ toLowerCase(proposedAlias) \notin AliasesLower(commandsToWrite)
           newCmd == [id |-> nextId, command |-> trim(impCmd.command.v),
                      alias |-> IF keep THEN Str(proposedAlias) ELSE False,
                      comment |-> TrimOrFalse(impCmd.comment)]
       IN  AppendEntries(Tail(entries), Append(commandsToWrite, newCmd), nextId + 1,
                         warnings + (IF Truthy(impCmd.alias) /\ ~keep THEN 1 ELSE 0))

\* lines 578-597: one pass over the import file in overwrite mode
RECURSIVE ReplaceEntries(_, _, _, _, _)
ReplaceEntries(entries, commandsToWrite, nextId, importedAliasesLower, warnings) ==
  IF entries = <<>>
  THEN [commands |-> commandsToWrite, nextId |-> nextId, warnings |-> warnings]
  ELSE LET impCmd == Head(entries)
           proposedAlias == trim(impCmd.alias.v)
           keep == /\ Truthy(impCmd.alias)
                   /\ ~HasSpaceOrColon(proposedAlias)
                   /\ toLowerCase(proposedAlias) \notin importedAliasesLower
           newCmd == [id |-> nextId, command |-> trim(impCmd.command.v),
                      alias |-> IF keep THEN Str(proposedAlias) ELSE False,
                      comment |-> TrimOrFalse(impCmd.comment)]
       IN  ReplaceEntries(Tail(entries), Append(commandsToWrite, newCmd), nextId + 1,
                          IF keep THEN importedAliasesLower \cup {toLowerCase(proposedAlias)}
                          ELSE importedAliasesLower,
                          warnings + (IF Truthy(impCmd.alias) /\ ~keep THEN 1 ELSE 0))

\* ImportStartId taken from the records alone, without the counter
ImportStartIdFromMax(cfg, currentCommands) == MaxId(currentCommands) + 1

\* ImportStartId numbering every import from 1
ImportStartIdFromOne(cfg, currentCommands) == 1

\* lines 521-527: the first id an import hands out
ImportStartId(cfg, currentCommands) ==
  LET nextId == readConfig(cfg)
      maxCurrentId == MaxId(currentCommands)
  IN  IF nextId <= maxCurrentId THEN maxCurrentId + 1 ELSE nextId

\* what an import of the array entries printed and did
OpIn(entries, appendMode, report) ==
  [Op("import", report, 0, 0) EXCEPT !.entries = entries, !.appendMode = appendMode]

\* lines 540 and 583: impCmd.comment?.trim() is a call of undefined, a
\* TypeError, when the comment is the boolean false
CommentThrows(importedCommands) ==
  \E i \in 1..Len(importedCommands) : importedCommands[i].comment = False

\* lines 519-603: the import of the entries that passed the filter
ImportValid(entries, importedCommands, appendMode, user) ==
  \E currentCommands \in {readCommands(commandsFile)} :
    \E nextId \in {ImportStartId(configFile, currentCommands)} :
      /\ CanCreate(nextId, IF appendMode THEN Len(currentCommands) ELSE 0,
                   Len(importedCommands))
      /\ \E confirm \in IF appendMode THEN {"yes"} ELSE Confirms :
           IF ~appendMode /\ ~ConfirmValue(confirm)
           THEN Finish(commandsFile, configFile,
                       [OpIn(entries, appendMode, "Cancelled") EXCEPT
                          !.asked = TRUE, !.confirm = confirm])
           \* the exception leaves the handler before the writes of 559-560, 600-601
           ELSE IF CommentThrows(importedCommands)
           THEN Finish(commandsFile, configFile,
                       [OpIn(entries, appendMode, "TypeError") EXCEPT
                          !.asked = ~appendMode,
                          !.confirm = IF appendMode THEN "none" ELSE confirm])
           ELSE \E done \in {IF appendMode
                             THEN AppendEntries(importedCommands, currentCommands, nextId, 0)
                             ELSE ReplaceEntries(importedCommands, <<>>, nextId, {}, 0)} :
                  \E cfgMode \in user.cfgModes, cmdMode \in user.cmdModes :
                    Finish(writeCommands(commandsFile, done.commands, cmdMode),
                           writeConfig(configFile, done.nextId, cfgMode),
                           [OpIn(entries, appendMode,
                                 IF appendMode THEN "Appended" ELSE "Replaced")
                              EXCEPT !.asked = ~appendMode,
                                     !.confirm = IF appendMode THEN "none" ELSE confirm,
                                     !.warn = IF done.warnings > 0
                                              THEN Warning("alias skipped", <<>>)
                                              ELSE NoWarning,
                                     !.created = IF cmdMode = "ok"
                                                 THEN Len(importedCommands) ELSE 0,
                                     !.newIds = {done.commands[i].id :
                                                   i \in (Len(done.commands)
                                                          - Len(importedCommands) + 1)
                                                         ..Len(done.commands)}])

\* fileKind: "missing" (no such file), "garbage" (not a JSON array), "array"
handleImportCommand(fileKind, entries, appendMode, user) ==
  IF fileKind = "missing"
  THEN Finish(commandsFile, configFile, OpIn(entries, appendMode, "InvalidPath"))
  ELSE IF fileKind = "garbage"
  THEN Finish(commandsFile, configFile, OpIn(entries, appendMode, "ParseError"))
  ELSE IF FilterValid(entries) = <<>>
  THEN Finish(commandsFile, configFile, OpIn(entries, appendMode, "NoValidRecords"))
  ELSE ImportValid(entries, FilterValid(entries), appendMode, user)

(***************************************************************************)
(* Inputs                                                                  *)
(***************************************************************************)
ls == <<"l", "s">>
echo == <<"e", " ", "{", "}">>

TypedCommands == {<<>>, ls, <<" ">> \o echo}
TypedAliases == {<<>>, <<" ">>, <<"a">>, <<"A">>, <<"2">>}
Specifiers == {StringOf(i) : i \in 1..MaxNextId} \cup {<<>>, <<"a">>, <<"z">>}

Entry(command, alias, comment) == [command |-> command, alias |-> alias, comment |-> comment]
ImportEntries ==
  { Entry(Str(ls), Str(<<"a">>), Undefined),
    Entry(Str(echo), Str(<<"A">>), Undefined),
    Entry(Str(ls), Str(<<"a", " ", "b">>), Undefined),
    Entry(Undefined, Str(<<"a">>), Undefined) }

SeqsUpTo(S, n) == UNION {[1..k -> S] : k \in 0..n}
ImportFiles == SeqsUpTo(ImportEntries, MaxBatch)

\* the person at the terminal and the file system, when every write succeeds
User ==
  [commands |-> TypedCommands, aliases |-> TypedAliases, comments |-> {<<>>},
   aborts |-> 0..3, cfgModes |-> {"ok"}, cmdModes |-> {"ok"}, statuses |-> {0, 1},
   \* attempts: alias values tried at a prompt before the answer it accepts
   attempts |-> {},
   \* files: the arrays found in the files given to import
   files |-> ImportFiles]

(***************************************************************************)
(* The CLI: one handler at a time                                          *)
(***************************************************************************)
Init ==
  /\ commandsFile = NoFile
  /\ configFile = NoFile
  /\ lastOp = Op("init", "", 0, 0)
  /\ issued = {}
  /\ procs = NoProcs

\* dumb add
Add(user) == handleAddCommand(<<>>, <<>>, <<>>, user)

\* dumb dl <specifier>
Delete(user) == \E specifier \in Specifiers : handleDeleteCommand(specifier, user)

\* dumb edit <specifier>
Edit(user) == \E specifier \in Specifiers : handleEditCommand(specifier, user)

\* dumb run <specifier> [args..]
Run(specifiers, argLists, user) ==
  \E specifier \in specifiers, runtimeArgs \in argLists :
    handleRunCommand(specifier, runtimeArgs, user)

\* dumb export [path]
Export == \E dirOk \in BOOLEAN : handleExportCommand(dirOk)

\* dumb import <file> and dumb import -a <file>
Import(user) ==
  \/ \E fileKind \in {"missing", "garbage"}, appendMode \in BOOLEAN :
       handleImportCommand(fileKind, <<>>, appendMode, user)
  \/ \E entries \in user.files, appendMode \in BOOLEAN :
       handleImportCommand("array", entries, appendMode, user)

Next ==
  \/ Add(User)
  \/ Delete(User)
  \/ Edit(User)
  \/ Run({<<"1">>}, {<<>>}, User)
  \/ Export
  \/ Import(User)

Spec == Init /\ [][Next]_vars

(***************************************************************************)
(* The CLI when a write of dumbcli.json may fail (the failure is caught    *)
(* and logged by writeCommands); writes of config.json succeed.            *)
(***************************************************************************)
UserSaveFails == [User EXCEPT !.aliases = {<<>>, <<"a">>}, !.cmdModes = WriteModes]

NextSaveFails ==
  \/ Add(UserSaveFails)
  \/ Delete(UserSaveFails)
  \/ Edit(UserSaveFails)
  \/ Import(UserSaveFails)

SpecSaveFails == Init /\ [][NextSaveFails]_vars

(***************************************************************************)
(* add and edit, with alias values that the alias question turns down      *)
(***************************************************************************)
\* the user answers every question, or gives up at the alias question
UserEdit == [User EXCEPT !.attempts = TypedAliases, !.aborts = {0, 2}]

NextEdit == Add(UserEdit) \/ Edit(UserEdit)

SpecEdit == Init /\ [][NextEdit]_vars

(***************************************************************************)
(* import and delete, with files whose entries have blank commands or the  *)
(* false alias and comment of a stored record                              *)
(***************************************************************************)
BlankEntries ==
  { Entry(Str(<<" ">>), Undefined, Undefined),
    Entry(Str(<<>>), Str(<<"z">>), Undefined) }

\* a record without alias and comment as writeCommands and export write it
StoredEntries == {Entry(Str(ls), False, False)}

UserImport ==
  [User EXCEPT !.files = SeqsUpTo(ImportEntries \cup BlankEntries \cup StoredEntries,
                                  MaxBatch)]

NextImport == Import(UserImport) \/ Delete(UserImport)

SpecImport == Init /\ [][NextImport]_vars

(***************************************************************************)
(* add, export, and the import of the file that the last export wrote      *)
(***************************************************************************)
UserRoundTrip ==
  [User EXCEPT !.aliases = {<<>>, <<"a">>}, !.comments = {<<>>, <<"c">>},
               !.aborts = {0}]

\* dumb import <file>, the file being the one the export just before wrote
ImportExported(user) ==
  /\ lastOp.op = "export" /\ lastOp.report = "Exported"
  /\ handleImportCommand("array", ParseExported(lastOp.exported), FALSE, user)

NextRoundTrip == Add(UserRoundTrip) \/ Export \/ ImportExported(UserRoundTrip)

SpecRoundTrip == Init /\ [][NextRoundTrip]_vars

(***************************************************************************)
(* ls, find and add over the files a user may find in ~/.dumbcli: none,    *)
(* damaged ones, and records files of the versions that stored no id       *)
(***************************************************************************)
\* a record as the first versions of the tool saved it: command and comment only
LegacyItem(command, comment) ==
  [id |-> 0, alias |-> Undefined, command |-> command, comment |-> comment]

\* a record as writeCommands saves it
Item(id, alias, command, comment) ==
  [id |-> id, alias |-> alias, command |-> command, comment |-> comment]

StoreFiles ==
  { NoFile, EmptyFile, BlankFile, GarbageFile, ObjectFile,
    ArrayFile(<<LegacyItem(ls, Str(<<"c", "1">>))>>),
    ArrayFile(<<LegacyItem(ls, Undefined), LegacyItem(echo, Undefined)>>),
    \* a file with an id in some records only
    ArrayFile(<<Item(2, False, echo, False), LegacyItem(ls, Undefined)>>),
    ArrayFile(<<Item(1, Str(<<"L">>), echo, False)>>),
    ArrayFile(<<Item(1, Str(<<"b">>), ls, False), Item(2, False, echo, Str(<<"B">>))>>) }

Queries == {<<>>, <<"1">>, <<"2">>, <<"l">>, <<"B">>, <<"e", "c">>, <<"z">>}

UserStore == [User EXCEPT !.aliases = {<<>>, <<"a">>}, !.aborts = {0, 1}]

InitStore ==
  /\ commandsFile \in StoreFiles
  /\ configFile \in {NoFile, ConfigJson(2)}
  /\ lastOp = Op("init", "", 0, 0)
  /\ issued = Ids(commandsFile) \ {0}
  /\ procs = NoProcs

\* dumb ls
List == handleListCommands

\* dumb find <query>
Find == \E query \in Queries : handleFindCommand(query)

NextStore == List \/ Find \/ Add(UserStore)

SpecStore == InitStore /\ [][NextStore]_vars

(***************************************************************************)
(* the power syntax and delete                                             *)
(***************************************************************************)
PowerInputs ==
  { <<"l", "s">>,
    PowerPrefix,
    PowerPrefix \o <<":", "a">>,
    PowerPrefix \o ls,
    PowerPrefix \o ls \o <<":", "a">>,
    PowerPrefix \o ls \o <<":", "A", ":", "c">>,
    PowerPrefix \o <<" ">> \o ls \o <<" ", ":", ":", "c", ":", "d">>,
    PowerPrefix \o echo \o <<":", "b", " ", "b">> }

\* the user presses enter at a question, types over its initial value, or aborts
UserPower ==
  [User EXCEPT !.commands = {<<>>, echo}, !.aliases = {<<>>, <<"b">>},
               !.comments = {<<>>, <<"x">>}]

\* dumb <input..>
Default(user) == \E rawInput \in PowerInputs : handleDefaultCommand(rawInput, user)

NextPower == Default(UserPower) \/ Delete(UserPower)

SpecPower == Init /\ [][NextPower]_vars

(***************************************************************************)
(* the resolver: dl and run over records files with every mix of ids and   *)
(* aliases, in any order, and specifiers of every shape                    *)
(***************************************************************************)
ResolveItems ==
  { Item(id, alias, ls, False) :
      id \in {1, 2, 12},
      alias \in {False, Str(<<"2">>), Str(<<"A">>), Str(<<"1", "2">>)} }

\* records files with different ids and, in lower case, different aliases
ResolveFiles ==
  { ArrayFile(items) : items \in
      { s \in SeqsUpTo(ResolveItems, MaxNextId) :
          \A i, j \in 1..Len(s) :
            i # j => /\ s[i].id # s[j].id
                     /\ (s[i].alias = False \/ s[i].alias # s[j].alias) } }

ResolveSpecifiers ==
  { <<>>, <<"1">>, <<"2">>, <<"1", "2">>, <<"a">>, <<"A">>, <<"z">>,
    <<"2", "x">>, <<" ", "2">>, <<"+", "1">>, <<"-", "1">>, <<"0", "2">> }

InitResolve ==
  /\ commandsFile \in ResolveFiles
  /\ configFile = ConfigJson(13)
  /\ lastOp = Op("init", "", 0, 0)
  /\ issued = Ids(commandsFile)
  /\ procs = NoProcs

NextResolve ==
  \/ Run(ResolveSpecifiers, {<<>>}, User)
  \/ \E specifier \in ResolveSpecifiers : handleDeleteCommand(specifier, User)

SpecResolve == InitResolve /\ [][NextResolve]_vars

(***************************************************************************)
(* ls, find and add over the records file of an earlier version, in which  *)
(* some or all records have no id, before any counter file exists          *)
(***************************************************************************)
LegacyItems ==
  {LegacyItem(c, m) : c \in {ls, echo}, m \in {Undefined, Str(<<"c", "1">>)}}
    \cup {Item(2, False, ls, False)}

\* a records file in which some record has no id
Legacy(file) ==
  file.kind = "array" /\ \E i \in 1..Len(file.items) : file.items[i].id = 0

LegacyFiles ==
  {file \in {ArrayFile(items) : items \in SeqsUpTo(LegacyItems, MaxNextId)} : Legacy(file)}

InitLegacy ==
  /\ commandsFile \in LegacyFiles
  /\ configFile = NoFile
  /\ lastOp = Op("init", "", 0, 0)
  /\ issued = Ids(commandsFile) \ {0}
  /\ procs = NoProcs

NextLegacy == List \/ Find \/ Add(UserStore)

SpecLegacy == InitLegacy /\ [][NextLegacy]_vars

(***************************************************************************)
(* run alone: a store of one record, every argument list                   *)
(***************************************************************************)
RunCommands ==
  { ls,
    echo,
    <<"{", "}", " ", "{", "}">>,
    <<"~", "/", "{", "}">>,
    <<"{", "}", "{", "}", "{", "}">> }
ArgTexts == {<<>>, <<"a">>, <<"{", "}">>, <<"$", "&">>, <<"b", " ", "c">>}
ArgLists == SeqsUpTo(ArgTexts, MaxArgs)

InitRun ==
  /\ commandsFile \in {ArrayFile(<<[id |-> 1, alias |-> Str(<<"r">>), command |-> c,
                                    comment |-> False]>>) : c \in RunCommands}
  /\ configFile = ConfigJson(2)
  /\ lastOp = Op("init", "", 0, 0)
  /\ issued = {1}
  /\ procs = NoProcs

\* run writes neither file, so each run is taken from the store as first loaded
NextRun == lastOp.op = "init" /\ Run({<<"1">>, <<"R">>, <<"z">>}, ArgLists, User)

SpecRun == InitRun /\ [][NextRun]_vars

(***************************************************************************)
(* Properties                                                              *)
(***************************************************************************)
items == commandsFile.items

\* C1: no two records of the persisted store have the same id.
C1_UniqueIds ==
  \A i, j \in 1..Len(items) : i # j => items[i].id # items[j].id

C1_Witness ==
  /\ lastOp.op = "import" /\ lastOp.report = "Appended" /\ lastOp.created = 1
  /\ Len(items) = 2

\* C2: at most one record of the persisted store carries a given alias, compared
\* without regard to case; records without an alias are never in conflict.
C2_UniqueAliases ==
  \A i, j \in 1..Len(items) :
    (i # j /\ Truthy(items[i].alias) /\ Truthy(items[j].alias))
      => toLowerCase(items[i].alias.v) # toLowerCase(items[j].alias.v)

C2_Witness ==
  /\ lastOp.op = "edit" /\ lastOp.report = "Updated"
  /\ Len(items) = 2
  /\ Truthy(items[1].alias) /\ Truthy(items[2].alias)

\* C3: a record created or imported never gets an id that a saved store has
\* held before, whether that record is still stored, was deleted or was
\* discarded by a replace-import; and edit leaves the ids of the store as they were.
C3_IdNeverReused ==
  [][ /\ lastOp'.newIds \cap issued = {}
      /\ lastOp'.op = "edit" =>
           [i \in 1..Len(items) |-> items[i].id]
             = [i \in 1..Len(commandsFile'.items) |-> commandsFile'.items[i].id] ]_vars

C3_Witness ==
  /\ lastOp.newIds # {}
  /\ (issued \ lastOp.newIds) \ Ids(commandsFile) # {}

\* C4: the persisted counter is greater than the largest id in the persisted store.
C4_CounterAboveMaxId == readConfig(configFile) > MaxId(items)

C4_Witness ==
  /\ lastOp.op = "delete" /\ lastOp.report = "Deleted"
  /\ items # <<>>
  /\ readConfig(configFile) > MaxId(items) + 1

\* C5: the counter starts at 1 and every operation moves it by the
\* number of records that the operation persisted, so an operation that persists
\* none, a create whose save fails included, leaves it where it was.
C5_CounterCountsPersisted ==
  /\ readConfig(configFile) = 1
  /\ [][readConfig(configFile') = readConfig(configFile) + lastOp'.created]_vars

\* C6: an add aborted at any of its three questions writes no
\* record, leaves the counter alone and reports Cancelled.
C6_AbortedAddWritesNothing ==
  [][ (lastOp'.op = "add" /\ lastOp'.abortAt > 0)
        => /\ commandsFile' = commandsFile
           /\ configFile' = configFile
           /\ lastOp'.report = "Cancelled" ]_vars

\* C7: an edit aborted at any of its three questions reports
\* Cancelled, ends normally and persists nothing.
C7_AbortedEditCancels ==
  [][ (lastOp'.op = "edit" /\ lastOp'.abortAt > 0)
        => /\ commandsFile' = commandsFile
           /\ configFile' = configFile
           /\ lastOp'.report = "Cancelled" ]_vars

\* C8: after a successful add, the decimal text of the new id
\* resolves to the new record, and so does its alias when it has one.
C8_CreatedResolves ==
  (lastOp.op = "add" /\ lastOp.report = "Added") =>
    LET commands == readCommands(commandsFile)
        at == CHOOSE i \in 1..Len(commands) : commands[i].id = lastOp.id
    IN  /\ findCommandByIdOrAlias(StringOf(lastOp.id), commands) = at
        /\ Truthy(commands[at].alias)
             => findCommandByIdOrAlias(commands[at].alias.v, commands) = at

\* the stored command with its i-th marker replaced by the i-th argument
RECURSIVE Filled(_, _, _)
Filled(command, runtimeArgs, i) ==
  LET at == IndexOfPlaceholder(command)
  IN  IF at = 0 \/ i > Len(runtimeArgs) THEN command
      ELSE SubSeq(command, 1, at - 1) \o runtimeArgs[i]
           \o Filled(SubSeq(command, at + 2, Len(command)), runtimeArgs, i + 1)

RanCommand == readCommands(commandsFile)[1].command

\* C9: with k >= 1 markers and at least k arguments, the prepared
\* command is the stored command with its i-th marker replaced by the i-th
\* argument, i = 1..k (and a leading ~ expanded); later arguments do not appear.
C9_LeftToRightSubstitution ==
  (lastOp.op = "run" /\ lastOp.asked /\ placeholderCount(RanCommand) >= 1)
    => lastOp.final = ExpandTilde(Filled(RanCommand, lastOp.args, 1))

\* C10: with k >= 1 markers and fewer than k arguments, run reports
\* InsufficientArguments(k, number supplied), asks for no confirmation and
\* executes nothing.
C10_InsufficientArguments ==
  (lastOp.op = "run" /\ lastOp.id # 0
     /\ placeholderCount(RanCommand) >= 1
     /\ Len(lastOp.args) < placeholderCount(RanCommand))
    => /\ lastOp.report = "InsufficientArguments"
       /\ lastOp.required = placeholderCount(RanCommand)
       /\ lastOp.provided = Len(lastOp.args)
       /\ ~lastOp.asked
       /\ lastOp.exec = <<>>

C10_Witness ==
  /\ lastOp.op = "run" /\ lastOp.report = "InsufficientArguments"
  /\ lastOp.required = 3 /\ lastOp.provided = 2

\* C11: run warns of unused arguments exactly when more arguments are given
\* than the command has markers; the warning names the arguments that were
\* ignored, a command without markers is run as stored (a leading ~ expanded),
\* and the confirmation is asked all the same.
C11_UnusedArgumentsWarning ==
  (lastOp.op = "run" /\ lastOp.id # 0
     /\ Len(lastOp.args) >= placeholderCount(RanCommand))
    => LET k == placeholderCount(RanCommand)
           n == Len(lastOp.args)
       IN  /\ lastOp.asked
           /\ (lastOp.warn.kind # "none") <=> (n > k)
           /\ n > k => lastOp.warn.args = SubSeq(lastOp.args, k + 1, n)
           /\ k = 0 => lastOp.final = ExpandTilde(RanCommand)

\* C12: a run starts the external command at most once, with the prepared
\* final command, and only when the confirmation was answered yes; a
\* confirmation answered no or aborted starts nothing.
C12_ExecutesOnlyConfirmed ==
  lastOp.op = "run" =>
    /\ Len(lastOp.exec) <= 1
    /\ lastOp.exec # <<>> =>
         /\ lastOp.asked /\ lastOp.confirm = "yes"
         /\ lastOp.exec[1] = Prepare(RanCommand, lastOp.args).finalCommand
    /\ lastOp.confirm \in {"no", "abort"} => lastOp.exec = <<>>

C12_Witness ==
  /\ lastOp.op = "run" /\ lastOp.confirm = "yes"
  /\ lastOp.args # <<>>
  /\ lastOp.exec = <<lastOp.final>>

\* C13: what run hands back to its caller tells "never ran" from "ran and
\* failed": an unresolved specifier, too few arguments and a declined
\* confirmation give an error that is neither CommandFailed nor what a
\* success gives, a non-zero exit of the command gives CommandFailed(exit
\* status), and success gives the command's own exit status (a handler that
\* returns nothing lets the process end with status 0).
C13_ResultTellsRanFromNeverRan ==
  lastOp.op = "run" =>
    /\ lastOp.report \in {"NotFound", "InsufficientArguments", "Cancelled"}
         => lastOp.result.t = "error"
    /\ lastOp.report = "Failed"
         => lastOp.result = [t |-> "CommandFailed", v |-> lastOp.status]
    /\ lastOp.report = "Finished"
         => lastOp.result \in {[t |-> "number", v |-> lastOp.status], Undefined}

\* C14: an edit of a record that exists, with nothing typed at any of its three
\* questions, reports that nothing changed and leaves the records file and the
\* counter file as they were, however often it is repeated.
C14_BlankEditChangesNothing ==
  [][ (lastOp'.op = "edit" /\ lastOp'.id # 0 /\ lastOp'.blank)
        => /\ lastOp'.report = "NoChanges"
           /\ commandsFile' = commandsFile
           /\ configFile' = configFile ]_vars

C14_Witness ==
  /\ lastOp.op = "edit" /\ lastOp.blank /\ lastOp.report = "NoChanges"
  /\ \E i \in 1..Len(items) : items[i].id = lastOp.id /\ Truthy(items[i].alias)

\* the alias v, as typed at the alias question of an edit of cmdToEdit, is
\* the alias of another record, or that of cmdToEdit itself, whatever the case
TakenByOther(v, cmdToEdit, commands) ==
  \E i \in 1..Len(commands) :
    /\ commands[i].id # cmdToEdit.id
    /\ Truthy(commands[i].alias)
    /\ toLowerCase(commands[i].alias.v) = toLowerCase(trim(v))

OwnAlias(v, cmdToEdit) ==
  Truthy(cmdToEdit.alias) /\ toLowerCase(cmdToEdit.alias.v) = toLowerCase(trim(v))

Resolves(specifier, commands) ==
  \E i \in 1..Len(commands) :
    \/ ~parseInt(specifier).isNaN /\ commands[i].id = parseInt(specifier).n
    \/ Truthy(commands[i].alias)
         /\ toLowerCase(commands[i].alias.v) = toLowerCase(specifier)

\* C16: dl, edit and run given a specifier (a text that is not empty: an empty
\* one is taken for a missing argument) that no record answers to report
\* NotFound, write neither the records file nor the counter file, ask no
\* confirmation and run nothing.
C16_NotFoundChangesNothing ==
  [][ (lastOp'.op \in {"delete", "edit", "run"}
         /\ lastOp'.specifier # <<>>
         /\ ~Resolves(lastOp'.specifier, readCommands(commandsFile)))
        => /\ lastOp'.report = "NotFound"
           /\ commandsFile' = commandsFile
           /\ configFile' = configFile
           /\ ~lastOp'.asked
           /\ lastOp'.exec = <<>> ]_vars

C16_Witness ==
  /\ lastOp.op = "delete" /\ lastOp.report = "NotFound"
  /\ lastOp.specifier = <<"z">>
  /\ Len(items) = 2

\* the command of an import entry is text with something other than spaces in it
HasCommand(entry) == entry.command.t = "string" /\ trim(entry.command.v) # <<>>

\* C17: no import, in either mode, stores a record for an entry whose command
\* is missing, empty or blank, so that every stored record has a command that
\* is not empty; and an import of a file none of whose entries has a command
\* reports NoValidRecords and leaves the records file and the counter file as
\* they were.
C17_ImportSkipsBlankCommands ==
  /\ [](\A i \in 1..Len(items) : items[i].command # <<>>)
  /\ [][ (lastOp'.op = "import" /\ lastOp'.report \notin {"InvalidPath", "ParseError"}
            /\ \A i \in 1..Len(lastOp'.entries) : ~HasCommand(lastOp'.entries[i]))
           => /\ lastOp'.report = "NoValidRecords"
              /\ commandsFile' = commandsFile
              /\ configFile' = configFile ]_vars

\* the entries of an import file that have a command, in the order of the file
RECURSIVE WithCommand(_)
WithCommand(entries) ==
  IF entries = <<>> THEN <<>>
  ELSE (IF HasCommand(Head(entries)) THEN <<Head(entries)>> ELSE <<>>)
       \o WithCommand(Tail(entries))

\* the alias that entry may keep next to the records before: its own, trimmed,
\* unless it has a space or a colon in it or one of before holds it in any case
AliasKept(entry, before) ==
  IF /\ Truthy(entry.alias)
     /\ ~HasSpaceOrColon(trim(entry.alias.v))
     /\ \A i \in 1..Len(before) :
          Truthy(before[i].alias)
            => toLowerCase(before[i].alias.v) # toLowerCase(trim(entry.alias.v))
  THEN Str(trim(entry.alias.v))
  ELSE False

\* C18: an append-import of a file with N >= 1 entries that have a command
\* leaves every record of the store as it was and adds exactly N records, in
\* the order of the file, with ids above every id the store held; an entry
\* whose alias is misspelt or is held, in any case, by a record of the store or
\* by an earlier entry of the file is added without alias, and a warning is
\* printed exactly when that happens.
C18_AppendImportAddsAll ==
  [][ (lastOp'.op = "import" /\ lastOp'.appendMode
         /\ lastOp'.report \notin {"InvalidPath", "ParseError"}
         /\ WithCommand(lastOp'.entries) # <<>>)
        => LET valid == WithCommand(lastOp'.entries)
               old == Len(items)
               post == commandsFile'.items
           IN  /\ lastOp'.report = "Appended"
               /\ Len(post) = old + Len(valid)
               /\ SubSeq(post, 1, old) = items
               /\ \A j \in 1..Len(valid) :
                    /\ post[old + j].id > MaxId(items)
                    /\ post[old + j].command = trim(valid[j].command.v)
                    /\ post[old + j].alias
                         = AliasKept(valid[j], SubSeq(post, 1, old + j - 1))
               /\ (lastOp'.warn # NoWarning)
                    <=> \E j \in 1..Len(valid) :
                          Truthy(valid[j].alias) /\ post[old + j].alias = False ]_vars

\* C19: a replace-import leaves the records file and the counter file as they
\* were unless its confirmation is answered yes; answered yes, for a file with
\* entries that have a command, the store becomes one record for each such
\* entry, in the order of the file, with consecutive ids above every id the
\* store held, each alias kept unless it is misspelt or held by an earlier
\* entry of the file, and the counter becomes the last new id plus one.
C19_ReplaceImportReplacesAll ==
  [][ (lastOp'.op = "import" /\ ~lastOp'.appendMode
         /\ lastOp'.report \notin {"InvalidPath", "ParseError"})
        => /\ lastOp'.confirm # "yes"
                => commandsFile' = commandsFile /\ configFile' = configFile
           /\ (lastOp'.confirm = "yes" /\ WithCommand(lastOp'.entries) # <<>>)
                => LET valid == WithCommand(lastOp'.entries)
                       post == commandsFile'.items
                   IN  /\ lastOp'.report = "Replaced"
                       /\ Len(post) = Len(valid)
                       /\ \A j \in 1..Len(valid) :
                            /\ post[j].id > MaxId(items)
                            /\ post[j].id = post[1].id + j - 1
                            /\ post[j].command = trim(valid[j].command.v)
                            /\ post[j].alias = AliasKept(valid[j], SubSeq(post, 1, j - 1))
                       /\ readConfig(configFile') = post[Len(post)].id + 1 ]_vars

\* how many records of a store have each (command, comment, alias)
Triples(store) ==
  LET triple(i) == <<store[i].command, store[i].comment, store[i].alias>>
  IN  [t \in {triple(i) : i \in 1..Len(store)} |->
         Cardinality({i \in 1..Len(store) : triple(i) = t})]

\* C20: a replace-import, confirmed, of the file that an export of a store with
\* records has just written goes through and leaves a store with the same
\* (command, comment, alias) triples, each as many times as before; only the
\* ids may differ.
C20_ExportImportRoundTrip ==
  [][ (lastOp.op = "export" /\ lastOp.report = "Exported"
         /\ lastOp'.op = "import" /\ ~lastOp'.appendMode
         /\ lastOp'.entries = ParseExported(lastOp.exported)
         /\ lastOp'.confirm = "yes")
        => /\ lastOp'.report = "Replaced"
           /\ Triples(commandsFile'.items) = Triples(items) ]_vars

(***************************************************************************)
(* C21                                                                     *)
(***************************************************************************)
\* the handler loaded the records file: ls, or find with a query
Loads(op) == op.op = "list" \/ (op.op = "find" /\ op.report # "NoQuery")

\* what load returns for each content of the records file: nothing and no
\* diagnostic for a missing, empty or white-space file; nothing and a
\* diagnostic for text that is not JSON or JSON that is not an array
LoadedAsSpecified(file, op) ==
  /\ file.kind \in {"absent", "empty", "blank"}
       => op.loaded = <<>> /\ op.diagnostic = "none"
  /\ file.kind \in {"garbage", "object"}
       => op.loaded = <<>> /\ op.diagnostic \in {"CouldNotParse", "NotAnArray"}

\* C21 as stated: load never ends the process; it returns the empty sequence
\* for a missing or white-space records file, and the empty sequence with a
\* CorruptStore diagnostic for content that is not a JSON array.
C21_LoadNeverFails ==
  [][Loads(lastOp') => lastOp'.exit = 0 /\ LoadedAsSpecified(commandsFile, lastOp')]_vars

\* C21 amended: load returns as above whenever the configuration directory
\* exists or can be created; the process is ended (status 1) only by a
\* directory that cannot be created, which needs both files to be missing.
C21_LoadFailsOnlyWithoutDirectory ==
  [][Loads(lastOp') =>
       /\ lastOp'.exit = 0 => LoadedAsSpecified(commandsFile, lastOp')
       /\ lastOp'.exit # 0 =>
            /\ lastOp'.exit = 1
            /\ commandsFile.kind = "absent" /\ configFile.kind = "absent"
       /\ commandsFile' = commandsFile /\ configFile' = configFile]_vars

\* ls over a records file that holds a JSON object
C21_Witness ==
  /\ lastOp.op = "list" /\ lastOp.exit = 0
  /\ commandsFile.kind = "object"
  /\ lastOp.loaded = <<>> /\ lastOp.diagnostic = "NotAnArray"

(***************************************************************************)
(* C22                                                                     *)
(***************************************************************************)
\* the post-state of a handler that did what it set out to do: a new records
\* file, whole, and a new counter exactly when the handler hands out ids
WhollyUpdated(op) ==
  /\ commandsFile'.kind = "array" /\ commandsFile' # commandsFile
  /\ (op \in {"add", "import"}) <=> (configFile' # configFile)

\* C22: whatever write fails during add, edit, delete or import, the two files
\* are left either both as they were or both as the handler meant to leave
\* them: never one updated without the other, never a file partly written.
C22_AllOrNothing ==
  [][lastOp'.op \in {"add", "edit", "delete", "import"} =>
       \/ (commandsFile' = commandsFile /\ configFile' = configFile)
       \/ WhollyUpdated(lastOp'.op)]_vars

(***************************************************************************)
(* Two processes: dumb add and dumb dl started in two terminals.  Each     *)
(* file access of a handler is a step of its own; what a process does      *)
(* between two accesses touches its own memory only.  Writes succeed.      *)
(***************************************************************************)
\* lines 149-185 of add: readCommands, then the three questions
AddStart(p, user) ==
  /\ procs[p].pc = "idle"
  /\ \E commands \in {readCommands(commandsFile)} :
       /\ CanCreate(readConfig(configFile), Len(commands), 1)
       /\ \E abortAt \in user.aborts :
            \E typedCommand \in Typed(1, abortAt, user.commands),
               typedAlias \in Typed(2, abortAt, user.aliases),
               typedComment \in Typed(3, abortAt, user.comments) :
              LET response == [command |-> Answer(1, abortAt, typedCommand),
                               alias |-> Answer(2, abortAt, typedAlias),
                               comment |-> Answer(3, abortAt, typedComment)]
              IN  /\ (abortAt = 0 \/ abortAt > 1) => trim(typedCommand) # <<>>
                  /\ (abortAt = 0 \/ abortAt > 2) => AddAliasValid(typedAlias, commands)
                  /\ procs' =
                       [procs EXCEPT ![p] =
                          IF ~Truthy(response.command)
                          THEN [Idle EXCEPT !.pc = "done", !.op = "add",
                                            !.report = "Cancelled"]
                          ELSE [Idle EXCEPT !.pc = "readConfig", !.op = "add",
                                            !.commands = commands,
                                            !.cmd = [id |-> 0,
                                                     command |-> trim(response.command.v),
                                                     alias |-> TrimOrFalse(response.alias),
                                                     comment |-> TrimOrFalse(response.comment)]]]
  /\ UNCHANGED <<commandsFile, configFile, lastOp, issued>>

\* line 138, in getNextId: readConfig
AddReadConfig(p) ==
  /\ procs[p].pc = "readConfig"
  /\ procs' = [procs EXCEPT ![p].pc = "writeConfig", ![p].nextId = readConfig(configFile)]
  /\ UNCHANGED <<commandsFile, configFile, lastOp, issued>>

\* lines 140-141, in getNextId: writeConfig of the value read plus one; then the
\* check of line 191 against the array in memory
AddWriteConfig(p) ==
  /\ procs[p].pc = "writeConfig"
  /\ configFile' = writeConfig(configFile, procs[p].nextId + 1, "ok")
  /\ procs' =
       [procs EXCEPT ![p] =
          IF Truthy(procs[p].cmd.alias)
             /\ ~isAliasUnique(procs[p].cmd.alias, procs[p].commands, 0)
          THEN [@ EXCEPT !.pc = "done", !.report = "AliasConflict"]
          ELSE [@ EXCEPT !.pc = "save", !.cmd.id = procs[p].nextId]]
  /\ UNCHANGED <<commandsFile, lastOp, issued>>

\* AddSaveValue reading the records file again before it appends
AddSaveValueReloaded(file, proc) == Append(readCommands(file), proc.cmd)

\* lines 197-202: the array add hands to writeCommands
AddSaveValue(file, proc) == Append(proc.commands, proc.cmd)

\* line 203 of add: writeCommands
AddSave(p) ==
  /\ procs[p].pc = "save" /\ procs[p].op = "add"
  /\ commandsFile' = writeCommands(commandsFile, AddSaveValue(commandsFile, procs[p]), "ok")
  /\ lastOp' = [Op("add", "Added", 0, procs[p].cmd.id) EXCEPT
                  !.proc = p, !.created = 1, !.newIds = {procs[p].cmd.id}]
  /\ issued' = issued \cup Ids(commandsFile')
  /\ procs' = [procs EXCEPT ![p].pc = "done", ![p].report = "Added"]
  /\ UNCHANGED configFile

\* lines 237-255 of dl: readCommands, findCommandByIdOrAlias, the confirm prompt
DeleteStart(p, specifier) ==
  /\ procs[p].pc = "idle"
  /\ specifier # <<>>
  /\ \E commands \in {readCommands(commandsFile)} :
       \E found \in {findCommandByIdOrAlias(specifier, commands)} :
         IF found = 0
         THEN procs' = [procs EXCEPT ![p] = [Idle EXCEPT !.pc = "done", !.op = "delete",
                                                         !.report = "NotFound"]]
         ELSE \E confirm \in Confirms :
                procs' =
                  [procs EXCEPT ![p] =
                     IF ConfirmValue(confirm)
                     THEN [Idle EXCEPT !.pc = "save", !.op = "delete",
                                       !.commands = commands, !.found = found]
                     ELSE [Idle EXCEPT !.pc = "done", !.op = "delete",
                                       !.report = "Cancelled"]]
  /\ UNCHANGED <<commandsFile, configFile, lastOp, issued>>

\* lines 256-257 of dl: splice, then writeCommands
DeleteSave(p) ==
  /\ procs[p].pc = "save" /\ procs[p].op = "delete"
  /\ commandsFile' = writeCommands(commandsFile,
                                   RemoveAt(procs[p].commands, procs[p].found), "ok")
  /\ lastOp' = [Op("delete", "Deleted", 0, procs[p].commands[procs[p].found].id) EXCEPT
                  !.proc = p, !.asked = TRUE, !.confirm = "yes"]
  /\ issued' = issued \cup Ids(commandsFile')
  /\ procs' = [procs EXCEPT ![p].pc = "done", ![p].report = "Deleted"]
  /\ UNCHANGED configFile

pwd == <<"p", "w", "d">>

\* what is typed in each terminal: the two commands differ
UserRace(p) ==
  [User EXCEPT !.commands = IF p = 1 THEN {ls} ELSE {echo},
               !.aliases = {<<>>, <<"a">>}, !.aborts = {0, 1}]

InitRace ==
  /\ \/ commandsFile = NoFile /\ configFile = NoFile
     \/ /\ commandsFile = ArrayFile(<<Item(1, False, pwd, False)>>)
        /\ configFile = ConfigJson(2)
  /\ lastOp = Op("init", "", 0, 0)
  /\ issued = Ids(commandsFile)
  /\ procs = NoProcs

NextRace ==
  \E p \in Procs :
    \/ AddStart(p, UserRace(p))
    \/ AddReadConfig(p)
    \/ AddWriteConfig(p)
    \/ AddSave(p)
    \/ DeleteStart(p, <<"1">>)
    \/ DeleteSave(p)

SpecRace == InitRace /\ [][NextRace]_vars

(***************************************************************************)
(* C23                                                                     *)
(***************************************************************************)
\* process p is past getNextId: it holds the id it obtained
Obtained(p) ==
  /\ procs[p].op = "add" /\ procs[p].pc \in {"save", "done"}
  /\ procs[p].report # "Cancelled"

\* the counter before either process wrote it: the lower of the two values
\* read, since the first read comes before every write
FirstRead ==
  IF procs[1].nextId <= procs[2].nextId THEN procs[1].nextId ELSE procs[2].nextId

\* C23: two adds run side by side obtain different ids, and leave the counter
\* two above the value it had before them.
C23_ConcurrentAddsDistinctIds ==
  (Obtained(1) /\ Obtained(2)) =>
    /\ procs[1].nextId # procs[2].nextId
    /\ readConfig(configFile) = FirstRead + 2

(***************************************************************************)
(* C24                                                                     *)
(***************************************************************************)
\* the record matches the query by id, by alias, by command text or by comment
QueryMatches(query, cmd) ==
  \/ StringOf(cmd.id) = query
  \/ includes(toLowerCase(cmd.command), toLowerCase(query))
  \/ (Truthy(cmd.alias) /\ includes(toLowerCase(cmd.alias.v), toLowerCase(query)))
  \/ (Truthy(cmd.comment) /\ includes(toLowerCase(cmd.comment.v), toLowerCase(query)))

AscendingIds(s) == \A i, j \in 1..Len(s) : i < j => s[i].id <= s[j].id

\* C24: find prints exactly the records that match the query by id, alias,
\* command text or comment, in ascending id order, and changes neither file.
C24_FindByAnyField ==
  [][(lastOp'.op = "find" /\ lastOp'.report \in {"Found", "NoMatch"}) =>
       LET commands == readCommands(commandsFile)
           results == lastOp'.results
       IN  /\ {results[i] : i \in 1..Len(results)}
                = {commands[i] : i \in {j \in 1..Len(commands) :
                                          QueryMatches(lastOp'.query, commands[j])}}
           /\ AscendingIds(results)
           /\ commandsFile' = commandsFile /\ configFile' = configFile]_vars

(***************************************************************************)
(* C25                                                                     *)
(***************************************************************************)
\* the field of a record that holds the text given for it
FieldOf(text) == IF text = <<>> THEN False ELSE Str(text)

\* C25: a power add with a command and a valid, unused alias saves a record
\* with exactly the three values given, and puts no question to the user.
C25_PowerAddWithoutPrompts ==
  [][(/\ lastOp'.op = "add" /\ lastOp'.initial # <<>>
      /\ AddAliasValid(lastOp'.initial[2], readCommands(commandsFile))) =>
       /\ lastOp'.report = "Added"
       /\ lastOp'.prompted = 0
       /\ \E i \in 1..Len(commandsFile'.items) :
            /\ commandsFile'.items[i].id = lastOp'.id
            /\ commandsFile'.items[i].command = lastOp'.initial[1]
            /\ commandsFile'.items[i].alias = FieldOf(lastOp'.initial[2])
            /\ commandsFile'.items[i].comment = FieldOf(lastOp'.initial[3])]_vars

(***************************************************************************)
(* C26                                                                     *)
(***************************************************************************)
\* the record passes the id test or the alias test for the specifier
Passes(specifier, cmd) ==
  \/ (~parseInt(specifier).isNaN /\ cmd.id = parseInt(specifier).n)
  \/ (Truthy(cmd.alias) /\ toLowerCase(cmd.alias.v) = toLowerCase(specifier))

\* C26: the resolver returns the first record, in the order of the array, whose
\* id is the integer parsed from the specifier or whose alias is the specifier
\* in any case of letters, with no preference for an id hit further on; it
\* reports NotFound exactly when no record passes either test.
C26_ResolvesFirstMatch ==
  [][(lastOp'.op \in {"delete", "run"} /\ lastOp'.specifier # <<>>) =>
       LET commands == readCommands(commandsFile)
           first == {i \in 1..Len(commands) :
                       /\ Passes(lastOp'.specifier, commands[i])
                       /\ \A j \in 1..(i - 1) : ~Passes(lastOp'.specifier, commands[j])}
       IN  /\ lastOp'.report = "NotFound" <=> first = {}
           /\ \A i \in first : lastOp'.id = commands[i].id]_vars

\* specifier "2" with the alias "2" on the first record and the id 2 on the
\* second: the first record wins
C26_Witness ==
  /\ lastOp.op = "run" /\ lastOp.specifier = <<"2">> /\ lastOp.report # "NotFound"
  /\ Len(commandsFile.items) = 2
  /\ commandsFile.items[1].alias = Str(<<"2">>) /\ commandsFile.items[1].id # 2
  /\ commandsFile.items[2].id = 2
  /\ lastOp.id = commandsFile.items[1].id

(***************************************************************************)
(* C27                                                                     *)
(***************************************************************************)
Records(commands) == {commands[i] : i \in 1..Len(commands)}

\* C27: a delete that is confirmed removes the one record the specifier
\* resolved to and leaves every other record and the counter as they were; a
\* delete that is declined leaves both files as they were.
C27_DeleteRemovesOnlyTheTarget ==
  [][(lastOp'.op = "delete" /\ lastOp'.asked) =>
       LET before == readCommands(commandsFile)
           after == readCommands(commandsFile')
           target == {r \in Records(before) :
                        /\ r.id = lastOp'.id
                        /\ Passes(lastOp'.specifier, r)}
       IN  /\ configFile' = configFile
           /\ lastOp'.confirm = "yes" =>
                /\ Cardinality(target) = 1
                /\ Records(after) = Records(before) \ target
                /\ Len(after) = Len(before) - 1
           /\ lastOp'.confirm # "yes" => commandsFile' = commandsFile]_vars

\* the second of two records deleted by its alias
C27_Witness ==
  /\ lastOp.op = "delete" /\ lastOp.report = "Deleted" /\ lastOp.confirm = "yes"
  /\ lastOp.specifier = <<"a">>
  /\ Len(commandsFile.items) = 1
  /\ commandsFile.items[1].id # lastOp.id
  /\ lastOp.id \in issued

(***************************************************************************)
(* C28                                                                     *)
(***************************************************************************)
\* what process p set out to save: the array it loaded with its own change
OwnChange(p) ==
  IF procs[p].op = "add" THEN Append(procs[p].commands, procs[p].cmd)
  ELSE RemoveAt(procs[p].commands, procs[p].found)

\* C28: after two processes changed the store side by side, the records file
\* holds exactly what the process that saved last set out to save; a record
\* the other process saved after that one had loaded is not in it.
C28_LastWriterWins ==
  \A p \in Procs :
    lastOp.proc = p =>
      /\ Records(readCommands(commandsFile)) = Records(OwnChange(p))
      /\ Len(readCommands(commandsFile)) = Len(OwnChange(p))
      /\ \A q \in Procs \ {p} :
           (procs[q].report = "Added" /\ procs[q].cmd \notin Records(procs[p].commands))
             => procs[q].cmd \notin Records(readCommands(commandsFile))

\* both adds reported success, process 1 saved last, and the record of
\* process 2 is gone
C28_Witness ==
  /\ procs[1].report = "Added" /\ procs[2].report = "Added"
  /\ lastOp.proc = 1
  /\ procs[2].cmd.id # procs[1].cmd.id
  /\ procs[2].cmd \notin Records(readCommands(commandsFile))
  /\ procs[1].cmd \in Records(readCommands(commandsFile))

(***************************************************************************)
(* C29                                                                     *)
(***************************************************************************)
\* the value in the counter file, 1 when there is no counter file
Counter(cfg) == IF cfg.kind = "config" THEN cfg.nextId ELSE 1

\* C29: over a records file that cannot be parsed, an add that succeeds saves
\* a records file that holds the new record only, in place of the damaged
\* content, and the id of the record is the value of the counter.
C29_AddOverCorruptStore ==
  [][(/\ lastOp'.op = "add" /\ lastOp'.report = "Added"
      /\ commandsFile.kind \in {"garbage", "object"}) =>
       /\ commandsFile'.kind = "array"
       /\ Len(commandsFile'.items) = 1
       /\ commandsFile'.items[1].id = Counter(configFile)
       /\ lastOp'.id = Counter(configFile)
       /\ Counter(configFile') = Counter(configFile) + 1]_vars

\* the add printed the parse diagnostic and saved its record under id 2
C29_Witness ==
  /\ lastOp.op = "add" /\ lastOp.report = "Added"
  /\ lastOp.diagnostic = "CouldNotParse"
  /\ lastOp.id = 2
  /\ commandsFile.kind = "array" /\ Len(commandsFile.items) = 1
  /\ commandsFile.items[1].id = 2
  /\ configFile = ConfigJson(3)

(***************************************************************************)
(* C30                                                                     *)
(***************************************************************************)
DistinctIds(commands) ==
  \A i, j \in 1..Len(commands) : i # j => commands[i].id # commands[j].id

\* C30: starting from a records file in which some or all records have no id,
\* and no counter file, the records that load returns have different ids, and
\* they still have after any number of adds.
C30_LegacyIdsDistinct == DistinctIds(readCommands(commandsFile))

====
